---- MODULE Spec2Model ----
(***************************************************************************)
(* One call of the Twilio <-> OpenAI Realtime relay of src/main.py:        *)
(* handle_media_stream (the supervisor), its two nested coroutines         *)
(* receive_from_twilio (telephony -> AI) and send_to_twilio (AI ->         *)
(* telephony), send_session_update and store_conversation.                 *)
(*                                                                         *)
(* Strings are sequences of tokens; a base64 text is a sequence of         *)
(* sextets (0..63) and pad characters (Pad).  The coroutines run on one    *)
(* asyncio loop, so the code between two awaits is one atomic step.        *)
(***************************************************************************)
EXTENDS Integers, Sequences, FiniteSets, TLC

VARIABLES
    supPc,            \* position of handle_media_stream
    inPc,             \* position of receive_from_twilio
    outPc,            \* position of send_to_twilio
    inError,          \* the exception that ended receive_from_twilio, or "none"
    aiState,          \* openai_ws: "none", "open", "lost" (peer gone, closed still False), "closed"
    twClosed,         \* the telephony peer has disconnected
    stream_sid,       \* main.py:86
    client_name,      \* main.py:87
    conversation_log, \* main.py:88
    aiSent,           \* messages send_json accepted on openai_ws, in order
    twSent,           \* frames send_json delivered on the telephony websocket, in order
    stored,           \* the calls of store_conversation, in order
    twMedia,          \* history: the media events received while the AI peer was there
    aiDone,           \* history: contents of the response.content.done events received
    nameWrites,       \* history: number of executions of the assignment of main.py:141
    lastStart,        \* history: the streamSid of the last start event processed, or None
    aiAudio,          \* history: the response.audio.delta events with a delta received
    ignored           \* history: the directions that have consumed an event of no handled type

vars == <<supPc, inPc, outPc, inError, aiState, twClosed, stream_sid, client_name,
          conversation_log, aiSent, twSent, stored, twMedia, aiDone, nameWrites,
          lastStart, aiAudio, ignored>>

\* Bound of the model: the messages of one call that leave a trace (an audio
\* message forwarded to the AI side, a response.audio.delta event with a
\* delta, a response.content.done event, the first event of no handled type
\* of a direction).  Other messages are not counted.
MaxMsgs == 2

(***************************************************************************)
(* Values                                                                  *)
(***************************************************************************)
\* None is Python's None (main.py:86), Absent a key a JSON object lacks, Pad
\* the character = of a base64 text (main.py:123), beside the sextets 0..63.
None == "None"
Absent == "<absent>"
Pad == 64

\* main.py:87, the default of client_name: "Unknown Client".
UnknownClient == <<"Unknown", " ", "Client">>

\* The text frames the telephony side can deliver (main.py:94-95): json is
\* whether json.loads accepts the text; Absent marks a missing "event" or
\* "streamSid" key, hasPayload is whether data['media']['payload'] exists.
\* "AAA=" is <<0, 0, 0, Pad>> and "BBB=" is <<1, 1, 1, Pad>>.
TwMsg(j, e, s, h, p) ==
    [json |-> j, event |-> e, streamSid |-> s, hasPayload |-> h, payload |-> p]

TwilioMessages ==
    { TwMsg(TRUE,  "start", "CA1",  FALSE, <<>>),
      TwMsg(TRUE,  "start", "CA2",  FALSE, <<>>),
      TwMsg(TRUE,  "start", Absent, FALSE, <<>>),
      TwMsg(TRUE,  "media", Absent, TRUE,  <<0, 0, 0, Pad>>),
      TwMsg(TRUE,  "media", Absent, TRUE,  <<1, 1, 1, Pad>>),
      TwMsg(TRUE,  "media", Absent, FALSE, <<>>),
      TwMsg(TRUE,  "stop",  Absent, FALSE, <<>>),
      TwMsg(TRUE,  Absent,  Absent, FALSE, <<>>),
      TwMsg(FALSE, Absent,  Absent, FALSE, <<>>) }

\* The messages the AI side can deliver (main.py:114-115): json is whether
\* openai_message.json() succeeds; delta is the base64 text of 'delta' (<<>>
\* when the key is missing or empty); content is the text of 'content' (<<>>
\* when missing or empty) and isStr is FALSE for a JSON null, which Python
\* renders as the text None.
AiMsg(j, t, d, s, c) ==
    [json |-> j, type |-> t, delta |-> d, isStr |-> s, content |-> c]

AiContents ==
    { <<>>,
      <<"Hello">>,
      <<"Hello", " ", "name", " ", "Asha", " ">>,
      <<"Name", " ", "Asha">>,
      <<"name", " ", "Unknown", " ", "Client">>,
      <<"your", " ", "name">> }

AiDeltas ==
    { <<>>,
      <<16, 20, 9, 3>>,      \* "QUJD"
      <<23, 24, 25, Pad>>,   \* "XYZ="
      <<16>> }               \* "Q": not decodable

AiMessages ==
    { AiMsg(TRUE, "response.content.done", <<>>, TRUE, c) : c \in AiContents }
    \cup { AiMsg(TRUE, "response.content.done", <<>>, FALSE, <<"None">>) }
    \cup { AiMsg(TRUE, "response.audio.delta", d, TRUE, <<>>) : d \in AiDeltas }
    \cup { AiMsg(TRUE, "session.updated", <<>>, TRUE, <<>>),
           AiMsg(TRUE, "response.done", <<>>, TRUE, <<>>),
           AiMsg(TRUE, Absent, <<>>, TRUE, <<>>),
           AiMsg(FALSE, Absent, <<>>, TRUE, <<>>) }

(***************************************************************************)
(* Pure functions                                                          *)
(***************************************************************************)
\* str.lower() on the tokens of the model (main.py:140).
LowerToken(t) ==
    CASE t = "Name"    -> "name"
      [] t = "Hello"   -> "hello"
      [] t = "Asha"    -> "asha"
      [] t = "Unknown" -> "unknown"
      [] t = "Client"  -> "client"
      [] OTHER         -> t

Lower(s) == [i \in 1..Len(s) |-> LowerToken(s[i])]

\* "name" in s (main.py:140)
ContainsName(s) == \E i \in 1..Len(s) : s[i] = "name"

\* s.split("name")[-1] (main.py:141): the text after the last "name", the
\* whole text when there is none.
AfterLastName(s) ==
    LET idx == {i \in 1..Len(s) : s[i] = "name"}
    IN  IF idx = {} THEN s
        ELSE LET last == CHOOSE i \in idx : \A j \in idx : j <= i
             IN  SubSeq(s, last + 1, Len(s))

\* str.strip() (main.py:141)
Strip(s) ==
    LET ink == {i \in 1..Len(s) : s[i] # " "}
    IN  IF ink = {} THEN <<>>
        ELSE LET lo == CHOOSE i \in ink : \A j \in ink : i <= j
                 hi == CHOOSE i \in ink : \A j \in ink : j <= i
             IN  SubSeq(s, lo, hi)

\* f"AI: {ai_response}\n" (main.py:138)
LogEntry(c) == <<"AI: ">> \o c \o <<"\n">>

\* client_name.replace(' ', '_') (main.py:44)
ReplaceSpaces(s) == [i \in 1..Len(s) |-> IF s[i] = " " THEN "_" ELSE s[i]]

\* main.py:44
FileName(name) ==
    IF name # UnknownClient
    THEN ReplaceSpaces(name) \o <<"_loan_conversation.txt">>
    ELSE <<"Unknown_Client_loan_conversation.txt">>

\* base64.b64decode (main.py:123) of a text of sextets followed by pads:
\* B64Ok is whether it decodes, B64Decode the bytes.
DataLen(d) == Cardinality({i \in 1..Len(d) : d[i] # Pad})
PadLen(d) == Len(d) - DataLen(d)
B64WellFormed(d) == \A i \in 1..Len(d) : (d[i] = Pad) <=> (i > DataLen(d))
B64Ok(d) ==
    /\ B64WellFormed(d)
    /\ CASE DataLen(d) % 4 = 0 -> TRUE
         [] DataLen(d) % 4 = 1 -> FALSE
         [] DataLen(d) % 4 = 2 -> PadLen(d) >= 2
         [] OTHER              -> PadLen(d) >= 1

RECURSIVE DecodeQuads(_)
DecodeQuads(s) ==
    IF Len(s) = 0 THEN <<>>
    ELSE IF Len(s) = 2 THEN << s[1] * 4 + (s[2] \div 16) >>
    ELSE IF Len(s) = 3 THEN << s[1] * 4 + (s[2] \div 16),
                               (s[2] % 16) * 16 + (s[3] \div 4) >>
    ELSE << s[1] * 4 + (s[2] \div 16),
            (s[2] % 16) * 16 + (s[3] \div 4),
            (s[3] % 4) * 64 + s[4] >> \o DecodeQuads(SubSeq(s, 5, Len(s)))

B64Decode(d) == DecodeQuads(SubSeq(d, 1, DataLen(d)))

\* base64.b64encode (main.py:123)
RECURSIVE B64Encode(_)
B64Encode(b) ==
    IF Len(b) = 0 THEN <<>>
    ELSE IF Len(b) = 1 THEN << b[1] \div 4, (b[1] % 4) * 16, Pad, Pad >>
    ELSE IF Len(b) = 2 THEN << b[1] \div 4, (b[1] % 4) * 16 + (b[2] \div 16),
                               (b[2] % 16) * 4, Pad >>
    ELSE << b[1] \div 4, (b[1] % 4) * 16 + (b[2] \div 16),
            (b[2] % 16) * 4 + (b[3] \div 64), b[3] % 64 >>
         \o B64Encode(SubSeq(b, 4, Len(b)))

\* AudioPayload with the b64encode left out: the decoded bytes are sent.
AudioPayload_not_reencoded(delta) == B64Decode(delta)

\* main.py:123
AudioPayload(delta) == B64Encode(B64Decode(delta))

(***************************************************************************)
(* Messages sent                                                           *)
(***************************************************************************)
\* A message accepted by openai_ws.send_json; live is whether the peer was
\* still there when it was written.
AiOut(t, a, l) == [type |-> t, audio |-> a, live |-> l]

\* send_session_update with the send left out.
send_session_update_skipped(sent, live) == sent

\* main.py:151-166
send_session_update(sent, live) == Append(sent, AiOut("session.update", <<>>, live))

\* ForwardsMedia with the event test turned into "anything but start".
ForwardsMedia_any_event(m) == m.event # "start" /\ aiState # "closed"

\* main.py:96, the guard of the forwarding branch
ForwardsMedia(m) == m.event = "media" /\ aiState # "closed"

\* audio_append with the payload transcoded the way main.py:123 does for the
\* other direction.
audio_append_transcoded(m, live) ==
    AiOut("input_audio_buffer.append", AudioPayload(m.payload), live)

\* main.py:97-100
audio_append(m, live) == AiOut("input_audio_buffer.append", m.payload, live)

\* SidAfter writing stream_sid only while it is unset.
SidAfter_write_once(sid, m) == IF sid = None THEN m.streamSid ELSE sid

\* main.py:102-103: the value a start event gives stream_sid
SidAfter(sid, m) == m.streamSid

\* main.py:95-102: a decodable telephony event that is neither media nor start
IsOtherTw(m) == m.json /\ m.event \notin {"media", "start", Absent}

\* main.py:120: a response.audio.delta event with a delta
IsDelta(m) == m.json /\ m.type = "response.audio.delta" /\ m.delta # <<>>

\* main.py:134: a response.content.done event
IsDone(m) == m.json /\ m.type = "response.content.done"

\* main.py:116-134: a decodable AI event of a type with no handler
IsOtherAi(m) ==
    m.json /\ m.type \notin {"response.audio.delta", "response.content.done", Absent}

\* main.py:124-130
audio_delta(m) == [event |-> "media", streamSid |-> stream_sid,
                   payload |-> AudioPayload(m.delta)]

\* LogAfter with = in place of +=.
LogAfter_overwrite(log, c) == LogEntry(c)

\* main.py:138
LogAfter(log, c) == log \o LogEntry(c)

\* main.py:140-141
NameAfter(name, c) ==
    IF ContainsName(Lower(c)) /\ name = UnknownClient
    THEN Strip(AfterLastName(c))
    ELSE name

\* main.py:41-49: the file written
store_conversation(name, conversation) ==
    [filename |-> FileName(name), name |-> name, content |-> conversation]

(***************************************************************************)
(* Initial state: the telephony websocket has been accepted (main.py:74).  *)
(***************************************************************************)
Init ==
    /\ supPc = "connecting"
    /\ inPc = "idle"
    /\ outPc = "idle"
    /\ inError = "none"
    /\ aiState = "none"
    /\ twClosed = FALSE
    /\ stream_sid = None
    /\ client_name = UnknownClient
    /\ conversation_log = <<>>
    /\ aiSent = <<>>
    /\ twSent = <<>>
    /\ stored = <<>>
    /\ twMedia = <<>>
    /\ aiDone = <<>>
    /\ nameWrites = 0
    /\ lastStart = None
    /\ aiAudio = <<>>
    /\ ignored = {}

\* Whether the call may still take a message that leaves a trace.
Budget ==
    Cardinality({i \in 1..Len(aiSent) : aiSent[i].type = "input_audio_buffer.append"})
        + Len(aiAudio) + Len(aiDone) + Cardinality(ignored) < MaxMsgs

session == <<stream_sid, client_name, conversation_log>>
hist == <<twMedia, aiDone, nameWrites, lastStart, aiAudio, ignored>>

(***************************************************************************)
(* The environment                                                         *)
(***************************************************************************)
\* The telephony peer disconnects.
TwilioHangsUp ==
    /\ ~twClosed
    /\ supPc \in {"connecting", "configuring", "ready", "gathering"}
    /\ twClosed' = TRUE
    /\ UNCHANGED <<supPc, inPc, outPc, inError, aiState, session, aiSent, twSent,
                   stored, hist>>

\* The AI peer closes or the connection to it breaks; openai_ws.closed stays
\* False until a reader or a close() of this side sees it.
AiPeerCloses ==
    /\ aiState = "open"
    /\ aiState' = "lost"
    /\ UNCHANGED <<supPc, inPc, outPc, inError, twClosed, session, aiSent, twSent,
                   stored, hist>>

(***************************************************************************)
(* handle_media_stream                                                     *)
(***************************************************************************)
\* ws_connect with the failure swallowed: the call goes on without a
\* connection.
ws_connect_ignores_failure ==
    /\ supPc = "connecting"
    /\ \/ aiState' = "open" /\ supPc' = "configuring"
       \/ aiState' = aiState /\ supPc' = "ready"
    /\ UNCHANGED <<inPc, outPc, inError, twClosed, session, aiSent, twSent, stored,
                   hist>>

\* main.py:77-84: session.ws_connect succeeds or raises.
ws_connect ==
    /\ supPc = "connecting"
    /\ \/ aiState' = "open" /\ supPc' = "configuring"
       \/ aiState' = aiState /\ supPc' = "failed"
    /\ UNCHANGED <<inPc, outPc, inError, twClosed, session, aiSent, twSent, stored,
                   hist>>

\* main.py:85: await send_session_update(openai_ws).  On a connection
\* already lost the write is either accepted by the dead transport or
\* raises, which leaves the two context managers (closing openai_ws).
SendSessionUpdate ==
    /\ supPc = "configuring"
    /\ \/ /\ aiState = "open"
          /\ aiSent' = send_session_update(aiSent, TRUE)
          /\ supPc' = "ready"
          /\ UNCHANGED aiState
       \/ /\ aiState = "lost"
          /\ aiSent' = send_session_update(aiSent, FALSE)
          /\ supPc' = "ready"
          /\ UNCHANGED aiState
       \/ /\ aiState = "lost"
          /\ supPc' = "failed"
          /\ aiState' = "closed"
          /\ UNCHANGED aiSent
    /\ UNCHANGED <<inPc, outPc, inError, twClosed, session, twSent, stored, hist>>

\* main.py:86-88 and 146: the session state is created and gather starts
\* both coroutines.
StartRelays ==
    /\ supPc = "ready"
    /\ stream_sid' = None
    /\ client_name' = UnknownClient
    /\ conversation_log' = <<>>
    /\ inPc' = "run"
    /\ outPc' = "run"
    /\ supPc' = "gathering"
    /\ UNCHANGED <<inError, aiState, twClosed, aiSent, twSent, stored, hist>>

\* main.py:146-149: gather returns once both coroutines have returned; the
\* conversation is stored and the context managers close openai_ws.
GatherReturns ==
    /\ supPc = "gathering"
    /\ inPc = "done"
    /\ outPc = "done"
    /\ stored' = Append(stored, store_conversation(client_name, conversation_log))
    /\ supPc' = "stored"
    /\ aiState' = "closed"
    /\ UNCHANGED <<inPc, outPc, inError, twClosed, session, aiSent, twSent, hist>>

\* main.py:146: gather re-raises the exception of receive_from_twilio; line
\* 149 is skipped and the context managers close openai_ws.
GatherRaises ==
    /\ supPc = "gathering"
    /\ inPc = "failed"
    /\ supPc' = "failed"
    /\ aiState' = "closed"
    /\ UNCHANGED <<inPc, outPc, inError, twClosed, session, aiSent, twSent, stored,
                   hist>>

(***************************************************************************)
(* receive_from_twilio                                                     *)
(***************************************************************************)
\* The exception one telephony message raises in the loop body
\* (main.py:95-104), or "none".  send_json on a lost connection may raise
\* or not: sendRaises is that outcome.
InboundException(m, sendRaises) ==
    IF ~m.json THEN "JSONDecodeError"
    ELSE IF m.event = Absent THEN "KeyError"
    ELSE IF ForwardsMedia(m)
         THEN IF ~m.hasPayload THEN "KeyError"
              ELSE IF aiState = "lost" /\ sendRaises THEN "ConnectionResetError"
              ELSE "none"
    ELSE IF m.event = "start" /\ m.streamSid = Absent THEN "KeyError"
    ELSE "none"

\* InboundFrame with conversation_log (declared nonlocal at main.py:92)
\* cleared by receive_from_twilio.
InboundFrame_clears_log ==
    /\ conversation_log' = <<>>
    /\ UNCHANGED <<supPc, outPc, aiState, twClosed, client_name, twSent, stored,
                   aiDone, nameWrites, aiAudio>>

\* main.py:90-104: what receive_from_twilio never assigns.
InboundFrame ==
    UNCHANGED <<supPc, outPc, aiState, twClosed, client_name, conversation_log,
                twSent, stored, aiDone, nameWrites, aiAudio>>

\* main.py:94-104: one iteration of the loop on message m.  Only
\* WebSocketDisconnect is caught (main.py:105), so any other exception ends
\* the coroutine.
receive_from_twilio(m, sendRaises) ==
    /\ inPc = "run"
    /\ ~twClosed
    /\ Budget \/ ~((m.json /\ m.event = "media") \/ IsOtherTw(m))
    /\ twMedia' = IF m.json /\ m.event = "media" /\ m.hasPayload /\ aiState = "open"
                  THEN Append(twMedia, [payload |-> m.payload,
                                        started |-> stream_sid # None])
                  ELSE twMedia
    /\ LET exc == InboundException(m, sendRaises)
       IN  /\ inError' = exc
           /\ inPc' = IF exc = "none" THEN "run" ELSE "failed"
           /\ aiSent' = IF exc = "none" /\ ForwardsMedia(m)
                        THEN Append(aiSent, audio_append(m, aiState = "open"))
                        ELSE aiSent
           /\ stream_sid' = IF exc = "none" /\ ~ForwardsMedia(m) /\ m.event = "start"
                            THEN SidAfter(stream_sid, m)
                            ELSE stream_sid
    /\ lastStart' = IF m.json /\ m.event = "start" /\ m.streamSid # Absent
                    THEN m.streamSid
                    ELSE lastStart
    /\ ignored' = IF IsOtherTw(m) THEN ignored \cup {"telephony"} ELSE ignored
    /\ InboundFrame

\* main.py:94: after the disconnect the iterator of websocket.iter_text()
\* is exhausted and the loop ends without an exception: the coroutine
\* returns and openai_ws is left as it is.
InboundIteratorEnds ==
    /\ inPc = "run"
    /\ twClosed
    /\ inPc' = "done"
    /\ UNCHANGED <<supPc, outPc, inError, aiState, twClosed, session, aiSent, twSent,
                   stored, hist>>

\* main.py:105-108: the disconnect reaches the coroutine as
\* WebSocketDisconnect; openai_ws is closed unless it already is.
InboundDisconnectCaught ==
    /\ inPc = "run"
    /\ twClosed
    /\ inPc' = "done"
    /\ aiState' = "closed"
    /\ UNCHANGED <<supPc, outPc, inError, twClosed, session, aiSent, twSent, stored,
                   hist>>

(***************************************************************************)
(* send_to_twilio                                                          *)
(***************************************************************************)
\* OutboundRaises without the inner try of main.py:122-133: a delta that
\* does not decode, or a send on a closed telephony websocket, ends the loop.
OutboundRaises_delta_uncaught(m) ==
    \/ ~m.json
    \/ m.type = Absent
    \/ m.type = "response.content.done" /\ ~m.isStr
    \/ IsDelta(m) /\ (~B64Ok(m.delta) \/ twClosed)

\* main.py:115-118 and 136-140: whether message m raises out of the loop
\* body into the handler of main.py:143, which ends the loop.
OutboundRaises(m) ==
    \/ ~m.json
    \/ m.type = Absent
    \/ m.type = "response.content.done" /\ ~m.isStr

\* main.py:120-133: the frame sent for m, if any.  A delta that does not
\* decode and a send on a closed telephony websocket raise inside the inner
\* try and are skipped.
SendsFrame(m) ==
    /\ m.json
    /\ m.type = "response.audio.delta"
    /\ m.delta # <<>>
    /\ B64Ok(m.delta)
    /\ ~twClosed

\* main.py:110-144: what send_to_twilio never assigns.
OutboundFrame ==
    UNCHANGED <<supPc, inPc, inError, aiState, twClosed, stream_sid, aiSent, stored,
                twMedia, lastStart>>

\* main.py:114-144: one iteration of the loop on message m.
send_to_twilio(m) ==
    /\ outPc = "run"
    /\ aiState = "open"
    /\ Budget \/ ~(IsDelta(m) \/ IsDone(m) \/ IsOtherAi(m))
    /\ twSent' = IF SendsFrame(m) THEN Append(twSent, audio_delta(m)) ELSE twSent
    /\ aiAudio' = IF IsDelta(m)
                  THEN Append(aiAudio, [delta |-> m.delta, sid |-> lastStart,
                                        open |-> ~twClosed, done |-> Len(aiDone)])
                  ELSE aiAudio
    /\ ignored' = IF IsOtherAi(m) THEN ignored \cup {"ai"} ELSE ignored
    /\ LET done == IsDone(m)
       IN  /\ aiDone' = IF done THEN Append(aiDone, m.content) ELSE aiDone
           /\ conversation_log' = IF done THEN LogAfter(conversation_log, m.content)
                                  ELSE conversation_log
           /\ client_name' = IF done /\ m.isStr THEN NameAfter(client_name, m.content)
                             ELSE client_name
           /\ nameWrites' = IF done /\ m.isStr /\ ContainsName(Lower(m.content))
                               /\ client_name = UnknownClient
                            THEN nameWrites + 1
                            ELSE nameWrites
    /\ outPc' = IF OutboundRaises(m) THEN "done" ELSE "run"
    /\ OutboundFrame

\* main.py:114: the iteration over openai_ws ends when the connection is
\* closed or lost; aiohttp then marks openai_ws closed.
OutboundConnectionEnds ==
    /\ outPc = "run"
    /\ aiState \in {"lost", "closed"}
    /\ outPc' = "done"
    /\ aiState' = "closed"
    /\ UNCHANGED <<supPc, inPc, inError, twClosed, session, aiSent, twSent, stored,
                   hist>>

(***************************************************************************)
(* Specifications                                                          *)
(***************************************************************************)
Next ==
    \/ TwilioHangsUp
    \/ AiPeerCloses
    \/ ws_connect
    \/ SendSessionUpdate
    \/ StartRelays
    \/ GatherReturns
    \/ GatherRaises
    \/ \E m \in TwilioMessages, r \in BOOLEAN : receive_from_twilio(m, r)
    \/ InboundIteratorEnds
    \/ InboundDisconnectCaught
    \/ \E m \in AiMessages : send_to_twilio(m)
    \/ OutboundConnectionEnds

Spec == Init /\ [][Next]_vars

\* The event loop resumes a coroutine whose await has completed; nothing
\* obliges a peer to send or to close.
Fairness ==
    /\ WF_vars(ws_connect)
    /\ WF_vars(SendSessionUpdate)
    /\ WF_vars(StartRelays)
    /\ WF_vars(GatherReturns)
    /\ WF_vars(GatherRaises)
    /\ WF_vars(InboundIteratorEnds \/ InboundDisconnectCaught)
    /\ WF_vars(OutboundConnectionEnds)

FairSpec == Spec /\ Fairness

(***************************************************************************)
(* Properties                                                              *)
(***************************************************************************)
IsAppend(x) == x.type = "input_audio_buffer.append"
IsSessionUpdate(x) == x.type = "session.update"
IsLiveAppend(x) == IsAppend(x) /\ x.live

Audio(seq) == [i \in 1..Len(seq) |-> seq[i].audio]
Payloads(seq) == [i \in 1..Len(seq) |-> seq[i].payload]

\* C1: at most one session.update is ever sent on the AI connection, and
\* once either relay coroutine has started or an input_audio_buffer.append
\* has been sent, exactly one has been sent and it is the first message of
\* the connection.
C1_SessionUpdateOnceAndFirst ==
    /\ Len(SelectSeq(aiSent, IsSessionUpdate)) <= 1
    /\ (inPc # "idle" \/ outPc # "idle" \/ SelectSeq(aiSent, IsAppend) # <<>>)
          => /\ Len(SelectSeq(aiSent, IsSessionUpdate)) = 1
             /\ IsSessionUpdate(aiSent[1])

C1_Witness ==
    /\ inPc = "run"
    /\ outPc = "run"
    /\ Len(aiSent) = 2
    /\ IsSessionUpdate(aiSent[1])
    /\ IsAppend(aiSent[2])

\* C2: while no start event has been received (stream_sid is still None),
\* no input_audio_buffer.append has been sent to the AI connection.
C2_MediaBeforeStartDropped ==
    stream_sid = None => SelectSeq(aiSent, IsAppend) = <<>>

\* C3: when every media event of the call came after a start event, the
\* input_audio_buffer.append messages sent while the AI connection was open
\* carry, in order, one for one, the payloads of the media events received
\* while it was open.
C3_ForwardedEqualsReceived ==
    (\A i \in 1..Len(twMedia) : twMedia[i].started)
        => Audio(SelectSeq(aiSent, IsLiveAppend)) = Payloads(twMedia)

C3_Witness ==
    /\ Len(twMedia) = 2
    /\ twMedia[1].started
    /\ twMedia[2].started
    /\ twMedia[1].payload # twMedia[2].payload
    /\ Len(SelectSeq(aiSent, IsLiveAppend)) = 2

\* The transcript the response.content.done events received so far make:
\* one line per event, in the order of arrival.
RECURSIVE Transcript(_)
Transcript(contents) ==
    IF contents = <<>> THEN <<>>
    ELSE LogEntry(Head(contents)) \o Transcript(Tail(contents))

\* C4: conversation_log is at every point the concatenation, in arrival
\* order, of one line per response.content.done event received so far, and
\* of nothing else.
C4_TranscriptIsDoneEventsInOrder ==
    conversation_log = Transcript(aiDone)

C4_Witness ==
    /\ Len(aiDone) = 2
    /\ aiDone[1] # aiDone[2]
    /\ conversation_log = LogEntry(aiDone[1]) \o LogEntry(aiDone[2])

\* C5: once client_name has been assigned by a response.content.done event,
\* no later step changes its value.
C5_NameNeverOverwritten ==
    [][nameWrites >= 1 => client_name' = client_name]_vars

\* C6: when the AI connection is closed while the telephony connection is
\* open and receive_from_twilio is running, receive_from_twilio eventually
\* terminates.
C6_InboundEndsAfterAiCloses ==
    (aiState = "closed" /\ ~twClosed /\ inPc = "run") ~> (inPc # "run")

\* C7: once either connection has closed during the relay, both coroutines
\* eventually terminate and the wait of handle_media_stream for them ends.
C7_GatherCompletes ==
    (supPc = "gathering" /\ (twClosed \/ aiState # "open")) ~> (supPc # "gathering")

\* C8: store_conversation is called at most once, only after both
\* coroutines have terminated and with the final client_name and
\* conversation_log; and a call whose relay coroutines were started and that
\* has ended has called it.
C8_StoredExactlyOnce ==
    /\ Len(stored) <= 1
    /\ stored # <<>> => /\ inPc = "done"
                        /\ outPc = "done"
                        /\ stored[1].name = client_name
                        /\ stored[1].content = conversation_log
    /\ (supPc \in {"stored", "failed"} /\ inPc # "idle") => Len(stored) = 1

\* C9: after receive_from_twilio has terminated because the telephony
\* connection closed, the AI connection is closed.
C9_AiClosedAfterHangup ==
    (inPc = "done" /\ twClosed) => aiState = "closed"

\* C10: no telephony message ends receive_from_twilio with a decoding error
\* or a missing key: a malformed event is skipped and the loop goes on.
C10_MalformedEventSkipped ==
    inError \notin {"JSONDecodeError", "KeyError"}

\* C11: send_to_twilio ends only with the AI connection: an exception raised
\* by one event does not end the loop, so whenever the coroutine has
\* returned, openai_ws is closed.
C11_OutboundEndsOnlyWithConnection ==
    outPc = "done" => aiState = "closed"

\* C12: no frame sent to the telephony connection has an unset streamSid.
C12_NoFrameWithoutStreamSid ==
    \A i \in 1..Len(twSent) : twSent[i].streamSid # None

\* A base64 text that b64encode can produce: no pad after full quads, and
\* no stray bits in the last sextet before the pads.
Canonical(d) ==
    /\ B64Ok(d)
    /\ CASE DataLen(d) % 4 = 0 -> PadLen(d) = 0
         [] DataLen(d) % 4 = 2 -> PadLen(d) = 2 /\ d[DataLen(d)] % 16 = 0
         [] OTHER              -> PadLen(d) = 1 /\ d[DataLen(d)] % 4 = 0

Stamped(f) == f.streamSid # None
AfterStartOpen(a) == a.sid # None /\ a.open
AfterStartOpenDecodable(a) == a.sid # None /\ a.open /\ B64Ok(a.delta)

\* C13 as stated: the frames with a streamSid are, in order, one per
\* response.audio.delta event with a delta received after the start and
\* while the telephony connection was open, each carrying the streamSid of
\* that moment and the delta as received.
C13_FramePayloadEqualsDelta ==
    LET K == SelectSeq(aiAudio, AfterStartOpen)
    IN  SelectSeq(twSent, Stamped)
          = [i \in 1..Len(K) |-> [event |-> "media", streamSid |-> K[i].sid,
                                  payload |-> K[i].delta]]

\* C13 amended: the frames with a streamSid are, in order, one per such
\* event whose delta decodes; each carries the streamSid of that moment and
\* the base64 encoding of the decoded delta, which is the delta as received
\* when the delta is canonical base64.
C13_FrameIsReencodedDelta ==
    LET K == SelectSeq(aiAudio, AfterStartOpenDecodable)
        F == SelectSeq(twSent, Stamped)
    IN  /\ Len(F) = Len(K)
        /\ \A i \in 1..Len(K) :
              /\ F[i].event = "media"
              /\ F[i].streamSid = K[i].sid
              /\ F[i].payload = B64Encode(B64Decode(K[i].delta))
              /\ Canonical(K[i].delta) => F[i].payload = K[i].delta

C13_Witness ==
    LET K == SelectSeq(aiAudio, AfterStartOpenDecodable)
        F == SelectSeq(twSent, Stamped)
    IN  /\ Len(F) = 2
        /\ Len(K) = 2
        /\ Canonical(K[1].delta)
        /\ ~Canonical(K[2].delta)
        /\ F[1].payload = K[1].delta
        /\ F[2].payload # K[2].delta

\* C14: when ws_connect has failed, the call has ended: no message was sent
\* on the AI side, neither coroutine was started, no frame was sent to the
\* telephony side and nothing was stored.
C14_FailedConnectRelaysNothing ==
    (aiState = "none" /\ supPc # "connecting")
        => /\ supPc = "failed"
           /\ inPc = "idle"
           /\ outPc = "idle"
           /\ aiSent = <<>>
           /\ twSent = <<>>
           /\ stored = <<>>

C14_Witness ==
    /\ supPc = "failed"
    /\ aiState = "none"

\* The name C15 describes after the response.content.done events received:
\* the first content with "name" in it, met while the name is the default,
\* gives the trimmed text after "name"; any other content changes nothing.
RECURSIVE ClaimedName(_, _)
ClaimedName(name, contents) ==
    IF contents = <<>> THEN name
    ELSE ClaimedName(IF name = UnknownClient /\ ContainsName(Head(contents))
                     THEN Strip(AfterLastName(Head(contents)))
                     ELSE name,
                     Tail(contents))

\* C15: client_name is the trimmed text after "name" of the first
\* response.content.done content with "name" in it, and then differs from
\* the default; contents without "name" leave it unchanged.
C15_NameIsTextAfterName ==
    /\ client_name = ClaimedName(UnknownClient, aiDone)
    /\ (\E i \in 1..Len(aiDone) : ContainsName(aiDone[i])) => client_name # UnknownClient

\* C16: no input_audio_buffer.append is written on the AI connection once
\* the connection is gone, and a media event arriving then raises nothing.
C16_NoAppendOnClosedConnection ==
    /\ \A i \in 1..Len(aiSent) : IsAppend(aiSent[i]) => aiSent[i].live
    /\ inError # "ConnectionResetError"

\* C17: in every step, stream_sid changes only in a step of
\* receive_from_twilio, client_name and conversation_log change only in a
\* step of send_to_twilio; a step of receive_from_twilio leaves client_name
\* and conversation_log unchanged and a step of send_to_twilio leaves
\* stream_sid unchanged.
C17_SingleWriterPerField ==
    [][ /\ stream_sid' # stream_sid
            => \E m \in TwilioMessages, r \in BOOLEAN : receive_from_twilio(m, r)
        /\ (client_name' # client_name \/ conversation_log' # conversation_log)
            => \E m \in AiMessages : send_to_twilio(m)
        /\ (\E m \in TwilioMessages, r \in BOOLEAN : receive_from_twilio(m, r))
            => UNCHANGED <<client_name, conversation_log>>
        /\ (\E m \in AiMessages : send_to_twilio(m))
            => UNCHANGED stream_sid ]_vars

C17_Witness ==
    /\ stream_sid # None
    /\ client_name # UnknownClient
    /\ conversation_log # <<>>
    /\ inPc = "run"
    /\ outPc = "run"

\* C18: a step that consumes a telephony event that is neither start nor
\* media, or an AI event that is neither response.audio.delta nor
\* response.content.done, sends nothing on either connection, leaves
\* stream_sid, client_name and conversation_log unchanged and ends neither
\* coroutine.
C18_UnhandledEventsIgnored ==
    [][ /\ \A m \in TwilioMessages :
              (IsOtherTw(m) /\ \E r \in BOOLEAN : receive_from_twilio(m, r))
                 => UNCHANGED <<aiSent, twSent, session, inPc, outPc, inError>>
        /\ \A m \in AiMessages :
              (IsOtherAi(m) /\ send_to_twilio(m))
                 => UNCHANGED <<aiSent, twSent, session, inPc, outPc, inError>> ]_vars

C18_Witness ==
    /\ ignored = {"telephony", "ai"}
    /\ inPc = "run"
    /\ outPc = "run"
    /\ stream_sid = None
    /\ twSent = <<>>
    /\ Len(aiSent) = 1

FrameSent(a) == a.open /\ B64Ok(a.delta)

\* C19: stream_sid is the streamSid of the last start event processed (None
\* before the first), and every frame sent carries the value stream_sid had
\* when the frame was built.
C19_StreamSidLastWriterWins ==
    LET K == SelectSeq(aiAudio, FrameSent)
    IN  /\ stream_sid = lastStart
        /\ Len(twSent) = Len(K)
        /\ \A i \in 1..Len(K) : twSent[i].streamSid = K[i].sid

C19_Witness ==
    /\ Len(twSent) = 2
    /\ twSent[1].streamSid = "CA1"
    /\ twSent[2].streamSid = "CA2"
    /\ stream_sid = "CA2"

\* A response.audio.delta event whose handling fails: the delta does not
\* decode, or the telephony websocket is closed.
FailsDelta(m) == IsDelta(m) /\ (~B64Ok(m.delta) \/ twClosed)
Failed(a) == ~B64Ok(a.delta) \/ ~a.open

\* C20: a step of send_to_twilio on a response.audio.delta event whose
\* handling fails leaves the coroutine running, sends no frame and leaves
\* client_name and conversation_log unchanged.
C20_DeltaFailureContained ==
    [][ \A m \in AiMessages :
           (FailsDelta(m) /\ send_to_twilio(m))
              => /\ outPc' = "run"
                 /\ UNCHANGED <<client_name, conversation_log, twSent>> ]_vars

\* A response.content.done event arrived after a failed delta and is in the
\* transcript.
C20_Witness ==
    /\ \E i \in 1..Len(aiAudio) : Failed(aiAudio[i]) /\ aiAudio[i].done < Len(aiDone)
    /\ aiDone # <<>>
    /\ conversation_log = Transcript(aiDone)
    /\ outPc = "run"
====
